---- MODULE Spec2Model ----
(***************************************************************************)
(* Model of the brainfuck tool chain of wlingze/brainfuck:                 *)
(*   tokenizer  (src/src/tokenizer.rs:38-87)   source text -> Vec<Token>   *)
(*   optimize   (src/src/tokenizer.rs:89-157)  in-place folding/compaction *)
(*   VM::new    (src/src/vm.rs:35-47)          program construction        *)
(*   VM::run    (src/src/vm.rs:58-120)         the dispatch loop           *)
(*   main       (src/src/main.rs:9-18)         build, run, process exit    *)
(*                                                                         *)
(* Indices (pc, observer, writer, loop targets) are 0-based as in the Rust *)
(* code; TLA+ sequences are 1-based, so element k of a Vec v is v[k + 1].  *)
(*                                                                         *)
(* usize values are kept as their signed residue modulo 2^64: a value in   *)
(* [0, 2^63) is itself, a value 2^64 - k is written -k.  Every usize the   *)
(* model reaches is within a few units of 0 or of 2^64, so + and - on the  *)
(* residues are exact; the unsigned comparisons, the shift and the         *)
(* overflow conditions are the operators UGe, ShiftIsF, AddWraps, SubWraps. *)
(***************************************************************************)
EXTENDS Integers, Sequences, FiniteSets

VARIABLES
    \* ---- inputs, fixed for a behaviour
    src,              \* the source text, a sequence of characters
    input,            \* the bytes standard input will deliver (IoErr: a failing read)
    stdout_ok,        \* whether writes to standard output succeed
    overflow_checks,  \* build profile: TRUE = debug (overflow panics), FALSE = release (wraps)
    \* ---- tokenizer's locals
    cursor,           \* number of characters of src consumed by the for loop
    ir, stk, line, col, t_pc,
    tok_res,          \* NoResult while scanning, then Ok or a TokenizerError
    \* ---- optimize's locals
    tokens, observer, writer, o_stk,
    \* ---- VM fields and run's locals
    inst, mem, pc, point,
    stdin, stdout,    \* bytes still to be read / bytes written so far
    result,           \* outcome of VM::new / VM::run
    steps,            \* number of dispatch-loop iterations of the current run
    \* ---- position of the whole program
    phase,            \* "tokenizer", "optimize", "new", "run", "done", "failed"
    run_id,           \* "main": the optimized program; "ref": the raw tokenizer output;
                      \* "direct": a program handed to VM::new by a caller
    main_done,        \* outcome of the main run, kept for comparison with the ref run
    runs,             \* calls of run on the current VM
    process           \* how main has ended, once it has

vars == << src, input, stdout_ok, overflow_checks,
           cursor, ir, stk, line, col, t_pc, tok_res,
           tokens, observer, writer, o_stk,
           inst, mem, pc, point, stdin, stdout, result, steps,
           phase, run_id, main_done, runs, process >>

tokVars == << cursor, ir, stk, line, col, t_pc, tok_res >>
optVars == << tokens, observer, writer, o_stk >>
vmVars  == << inst, mem, pc, point, stdin, stdout, result, steps >>
envVars == << src, input, stdout_ok, overflow_checks >>

-----------------------------------------------------------------------------
(* Bounds of the model *)

MaxSrcLen == 4        \* longest source text of the build specification
MaxRunSrcLen == 4     \* longest source text of the full (build and run) specification
MaxSteps == 10        \* dispatch-loop iterations explored per run
MaxInputLen == 1      \* longest standard input
MaxVecLen == 3        \* longest instruction sequence handed to optimize directly
MaxProgLen == 2       \* longest program handed to VM::new directly
MaxRuns == 2          \* calls of run on one VM
FarStep == 960        \* a pointer step that takes the pointer well into the memory

(* Program constants *)

MEMORY_SIZE == 4 * 1024 * 1024
USIZE_BYTES == 8      \* size_of::<usize>() on a 64-bit target
PanicExit == 101      \* exit status of a process whose main thread panicked
IoErr == -1           \* marks a read of standard input that fails

InstrChars == {"+", "-", ">", "<", ",", ".", "[", "]"}
Chars == InstrChars \cup {"\n", "a"}
RunChars == InstrChars \cup {"a"}

RECURSIVE SeqsUpTo(_, _)
SeqsUpTo(S, n) ==
    IF n = 0 THEN {<<>>}
    ELSE LET shorter == SeqsUpTo(S, n - 1)
         IN  shorter \cup {Append(s, c) : s \in {t \in shorter : Len(t) = n - 1}, c \in S}

Range(s) == {s[k] : k \in 1..Len(s)}

-----------------------------------------------------------------------------
(* Token  (tokenizer.rs:3-13).  Input and Output carry no payload: x = 0.  *)

Tok(op, x) == [op |-> op, x |-> x]

NoResult == [kind |-> "none", line |-> 0, col |-> 0]
OkResult == [kind |-> "Ok", line |-> 0, col |-> 0]
TokenizerError(l, c, k) == [kind |-> k, line |-> l, col |-> c]

-----------------------------------------------------------------------------
(* tokenizer  (tokenizer.rs:38-87) *)

\* tokenizer.rs:69-71: patch the placeholder LoopStart(0) at org to point at
\* the LoopEnd just pushed (p is pc, the index of that LoopEnd)
PatchOffByOne(v, org, p) ==
    IF org < Len(v) /\ v[org + 1] = Tok("LoopStart", 0)
    THEN [v EXCEPT ![org + 1] = Tok("LoopStart", p + 1)]
    ELSE v
PatchLoopStart(v, org, p) ==
    IF org < Len(v) /\ v[org + 1] = Tok("LoopStart", 0)
    THEN [v EXCEPT ![org + 1] = Tok("LoopStart", p)]
    ELSE v

\* tokenizer.rs:63: stk.pop() yields None on an empty stack
PopIsNone(s) == Len(s) = 0

\* tokenizer.rs:79: `if let Some(..) = stk.pop()` after the scan
EndCheckForgotten(s) == FALSE
UnclosedAtEnd(s) == Len(s) > 0

\* tokenizer.rs:63 (and 132 in optimize): pop() takes the element pushed last
Popped(s) == s[Len(s)]

\* tokenizer.rs:79: the bracket whose position the error carries
OldestBracket(s) == s[1]
UnclosedBracket(s) == Popped(s)
Rest(s) == SubSeq(s, 1, Len(s) - 1)

\* tokenizer.rs:52-57: the six instructions that need no bracket handling
SimpleToken(chr) ==
    CASE chr = "+" -> Tok("IncrementData", 1)
      [] chr = "-" -> Tok("DecrementData", 1)
      [] chr = ">" -> Tok("IncrementPointer", 1)
      [] chr = "<" -> Tok("DecrementPointer", 1)
      [] chr = "," -> Tok("Input", 0)
      [] chr = "." -> Tok("Output", 0)

\* tokenizer.rs:76: `pc = ir.len() as u32`; v is the instruction sequence and
\* n the number of characters read so far
NextPcChars(v, n) == n
NextPc(v, n) == Len(v)

\* tokenizer.rs:45-77: one iteration of `for chr in src.chars()`
TokChar ==
    /\ phase = "tokenizer"
    /\ cursor < Len(src)
    /\ LET chr == src[cursor + 1] IN
       /\ cursor' = cursor + 1
       /\ IF chr = "]" /\ PopIsNone(stk)
          THEN \* tokenizer.rs:63-67: `?` returns the error at once
               /\ tok_res' = TokenizerError(line, col, "UncloseLeftBracket")
               /\ phase' = "failed"
               /\ UNCHANGED << ir, stk, line, col, t_pc >>
          ELSE /\ line' = IF chr = "\n" THEN line + 1 ELSE line
               /\ col' = IF chr = "\n" THEN 0 ELSE col
               /\ stk' = CASE chr = "[" -> Append(stk, << t_pc, line, col >>)
                           [] chr = "]" -> Rest(stk)
                           [] OTHER -> stk
               /\ ir' = CASE chr \in {"+", "-", ">", "<", ",", "."} ->
                                Append(ir, SimpleToken(chr))
                          [] chr = "[" -> Append(ir, Tok("LoopStart", 0))
                          [] chr = "]" ->
                                LET org == Popped(stk)[1]
                                IN  PatchLoopStart(Append(ir, Tok("LoopEnd", org)), org, t_pc)
                          [] OTHER -> ir
               /\ t_pc' = NextPc(ir', cursor')
               /\ UNCHANGED << tok_res, phase >>
    /\ UNCHANGED << envVars, process, runs, optVars, vmVars, run_id, main_done >>

\* tokenizer.rs:79-86: after the scan
TokEnd ==
    /\ phase = "tokenizer"
    /\ cursor = Len(src)
    /\ IF UnclosedAtEnd(stk)
       THEN /\ tok_res' = TokenizerError(UnclosedBracket(stk)[2], UnclosedBracket(stk)[3],
                                           "UncloseRightBracket")
            /\ stk' = Rest(stk)
            /\ phase' = "failed"
            /\ UNCHANGED tokens
       ELSE /\ tok_res' = OkResult
            /\ phase' = "optimize"
            /\ tokens' = ir       \* vm.rs:53-54: optimize works on the returned Vec
            /\ UNCHANGED stk
    /\ UNCHANGED << envVars, process, runs, cursor, ir, line, col, t_pc, observer, writer, o_stk,
                    vmVars, run_id, main_done >>

-----------------------------------------------------------------------------
(* optimize  (tokenizer.rs:89-157), one action per iteration of the        *)
(* `while observer < len` loop; len is the length before truncation.       *)

IsData(op) == op \in {"IncrementData", "DecrementData"}
IsCounted(op) == op \in {"IncrementData", "DecrementData",
                         "IncrementPointer", "DecrementPointer"}

\* tokenizer.rs:101: x.wrapping_add(d), on u8 for the data variants and on
\* usize for the pointer variants
wrapping_add(op, x, d) == IF IsData(op) THEN (x + d) % 256 ELSE x + d

\* tokenizer.rs:98-106: the inner while loop of _flod_ir; yields << j, x >>
RECURSIVE FlodScanMerges(_, _, _, _)
FlodScanMerges(v, op, j, x) ==
    IF j < Len(v) /\ IsCounted(v[j + 1].op)
    THEN FlodScanMerges(v, op, j + 1, wrapping_add(op, x, v[j + 1].x))
    ELSE << j, x >>
RECURSIVE FlodScan(_, _, _, _)
FlodScan(v, op, j, x) ==
    IF j < Len(v) /\ v[j + 1].op = op
    THEN FlodScan(v, op, j + 1, wrapping_add(op, x, v[j + 1].x))
    ELSE << j, x >>

\* tokenizer.rs:96-111
Opt_flod_ir ==
    /\ phase = "optimize"
    /\ observer < Len(tokens)
    /\ IsCounted(tokens[observer + 1].op)
    /\ LET cur == tokens[observer + 1]
           jx  == FlodScan(tokens, cur.op, observer + 1, cur.x)
       IN  /\ observer' = jx[1]
           /\ tokens' = [tokens EXCEPT ![writer + 1] = Tok(cur.op, jx[2])]
           /\ writer' = writer + 1
    /\ UNCHANGED << envVars, process, runs, tokVars, o_stk, vmVars, phase, run_id, main_done >>

\* tokenizer.rs:117: `observer += 1` after the copy
ObserverStays(obs) == obs
ObserverAfterCopy(obs) == obs + 1

\* tokenizer.rs:113-119
Opt_normal_ir ==
    /\ phase = "optimize"
    /\ observer < Len(tokens)
    /\ tokens[observer + 1].op \in {"Input", "Output"}
    /\ tokens' = [tokens EXCEPT ![writer + 1] = tokens[observer + 1]]
    /\ writer' = writer + 1
    /\ observer' = ObserverAfterCopy(observer)
    /\ UNCHANGED << envVars, process, runs, tokVars, o_stk, vmVars, phase, run_id, main_done >>

\* tokenizer.rs:123: the index pushed for a LoopStart is the write cursor
PendingStartStale(w, obs) == obs
PendingStart(w, obs) == w

\* tokenizer.rs:121-128
Opt_loop_start_ir ==
    /\ phase = "optimize"
    /\ observer < Len(tokens)
    /\ tokens[observer + 1].op = "LoopStart"
    /\ o_stk' = Append(o_stk, PendingStart(writer, observer))
    /\ tokens' = [tokens EXCEPT ![writer + 1] = Tok("LoopStart", 0)]
    /\ writer' = writer + 1
    /\ observer' = observer + 1
    /\ UNCHANGED << envVars, process, runs, tokVars, vmVars, phase, run_id, main_done >>

\* tokenizer.rs:133-136: patch the placeholder at org with the write position
\* w and emit LoopEnd(org) at w
WriteLoopEnd(v, org, w) ==
    LET patched == IF org < Len(v) /\ v[org + 1] = Tok("LoopStart", 0)
                   THEN [v EXCEPT ![org + 1] = Tok("LoopStart", w)]
                   ELSE v
    IN  [patched EXCEPT ![w + 1] = Tok("LoopEnd", org)]

\* tokenizer.rs:132: what `stk.pop()` leaves on the stack
StackKept(s) == s
StackPopped(s) == Rest(s)

\* tokenizer.rs:130-140
Opt_loop_end_ir ==
    /\ phase = "optimize"
    /\ observer < Len(tokens)
    /\ tokens[observer + 1].op = "LoopEnd"
    /\ IF o_stk = << >>
       THEN \* tokenizer.rs:132: unwrap() of None panics
            /\ phase' = "failed"
            /\ result' = "panic"
            /\ UNCHANGED << tokens, o_stk, writer, observer >>
       ELSE /\ tokens' = WriteLoopEnd(tokens, Popped(o_stk), writer)
            /\ o_stk' = StackPopped(o_stk)
            /\ writer' = writer + 1
            /\ observer' = observer + 1
            /\ UNCHANGED << phase, result >>
    /\ UNCHANGED << envVars, process, runs, tokVars, inst, mem, pc, point, stdin, stdout, steps,
                    run_id, main_done >>

\* tokenizer.rs:155-156: the loop has ended; truncate to the write cursor
OptEnd ==
    /\ phase = "optimize"
    /\ observer >= Len(tokens)
    /\ tokens' = SubSeq(tokens, 1, writer)
    /\ phase' = "new"
    /\ UNCHANGED << envVars, process, runs, tokVars, observer, writer, o_stk, vmVars, run_id, main_done >>

-----------------------------------------------------------------------------
(* Machine arithmetic *)

\* unsigned a >= b, for a usize residue a and a small b >= 0
UGe(a, b) == a < 0 \/ a >= b
\* a + x carries out of 64 bits / a - x borrows
AddWraps(a, x) == a < 0 /\ a + x >= 0
SubWraps(a, x) == a >= 0 /\ a - x < 0
\* (a >> (size_of::<usize>() - 1)) == 0xf; a residue below 0 stands for a
\* value of at least 2^63, whose shift is far above 0xf
ShiftIsF(a) == a >= 0 /\ a \div (2 ^ (USIZE_BYTES - 1)) = 15

(* Memory: vm.rs:40 allocates MEMORY_SIZE zero bytes.  The buffer is kept as *)
(* the function from the indices of its non-zero cells to their values.      *)

EmptyMem == << >>
InBounds(p) == p >= 0 /\ p < MEMORY_SIZE
Cell(m, p) == IF p \in DOMAIN m THEN m[p] ELSE 0
Store(m, p, v) ==
    LET D == IF v = 0 THEN DOMAIN m \ {p} ELSE DOMAIN m \cup {p}
    IN  [q \in D |-> IF q = p THEN v ELSE m[q]]

-----------------------------------------------------------------------------
(* VM::new  (vm.rs:35-47) *)

\* vm.rs:36
NeverNull(v) == FALSE
InstructionIsNull(v) == Len(v) = 0

NoRun == [res |-> "none", out |-> << >>]

\* vm.rs:35-47; the main run is built from the optimized tokens (vm.rs:53-55),
\* the reference run from the tokenizer's output as it was returned
New ==
    /\ phase = "new"
    /\ LET prog == IF run_id = "main" THEN tokens ELSE ir IN
       IF InstructionIsNull(prog)
       THEN /\ result' = "InstructionIsNull"
            /\ phase' = "done"
            /\ UNCHANGED << inst, mem >>
       ELSE /\ inst' = prog
            /\ mem' = EmptyMem
            /\ result' = "none"
            /\ phase' = "built"
    /\ UNCHANGED << envVars, process, runs, tokVars, optVars, pc, point, stdin, stdout, steps,
                    run_id, main_done >>

-----------------------------------------------------------------------------
(* VM::run  (vm.rs:58-120) *)

\* vm.rs:59-60
RunEnter ==
    /\ phase = "built"
    /\ pc' = 0
    /\ point' = 0
    /\ steps' = 0
    /\ phase' = "run"
    /\ runs' = runs + 1
    /\ UNCHANGED << envVars, process, tokVars, optVars, inst, mem, stdin, stdout, result,
                    run_id, main_done >>

\* vm.rs:63-64: the loop is entered and the match selects the arm of op
Dispatch(op) ==
    /\ phase = "run"
    /\ pc < Len(inst)
    /\ inst[pc + 1].op = op
    /\ steps < MaxSteps
    /\ steps' = steps + 1
    /\ UNCHANGED << envVars, process, runs, tokVars, optVars, run_id, main_done >>

\* the run ends here: an Err is returned, or the thread panics
Abort(res) ==
    /\ result' = res
    /\ phase' = "done"
    /\ UNCHANGED << inst, mem, pc, point, stdin, stdout >>

\* vm.rs:117 after an arm that changed neither the streams nor the result
Advance(m, pt, nextpc) ==
    /\ mem' = m
    /\ point' = pt
    /\ pc' = nextpc
    /\ UNCHANGED << inst, stdin, stdout, result, phase >>

\* vm.rs:65-67: `self.mem[point] += x` on u8
Exec_IncrementData ==
    /\ Dispatch("IncrementData")
    /\ LET x == inst[pc + 1].x
           v == Cell(mem, point)
       IN  IF ~InBounds(point) \/ (v + x > 255 /\ overflow_checks)
           THEN Abort("panic")
           ELSE Advance(Store(mem, point, (v + x) % 256), point, pc + 1)

\* vm.rs:68-70: `self.mem[point] -= x` on u8
Exec_DecrementData ==
    /\ Dispatch("DecrementData")
    /\ LET x == inst[pc + 1].x
           v == Cell(mem, point)
       IN  IF ~InBounds(point) \/ (v - x < 0 /\ overflow_checks)
           THEN Abort("panic")
           ELSE Advance(Store(mem, point, (v - x + 256) % 256), point, pc + 1)

\* vm.rs:72
PointerOverflows(p, x) == UGe(p + x, MEMORY_SIZE)

\* vm.rs:71-76
Exec_IncrementPointer ==
    /\ Dispatch("IncrementPointer")
    /\ LET x == inst[pc + 1].x IN
       IF AddWraps(point, x) /\ overflow_checks
       THEN Abort("panic")
       ELSE IF PointerOverflows(point, x)
       THEN Abort("PointerOverFlow")
       ELSE Advance(mem, point + x, pc + 1)

\* vm.rs:78
PointerUnderflows(p, x) == ShiftIsF(p + x)

\* vm.rs:77-82
Exec_DecrementPointer ==
    /\ Dispatch("DecrementPointer")
    /\ LET x == inst[pc + 1].x IN
       IF AddWraps(point, x) /\ overflow_checks
       THEN Abort("panic")
       ELSE IF PointerUnderflows(point, x)
       THEN Abort("PointerOverFlow")
       ELSE IF SubWraps(point, x) /\ overflow_checks
       THEN Abort("panic")
       ELSE Advance(mem, point - x, pc + 1)

\* vm.rs:83-90
Exec_Output ==
    /\ Dispatch("Output")
    /\ IF ~InBounds(point)
       THEN Abort("panic")
       ELSE IF ~stdout_ok
       THEN Abort("IO")
       ELSE /\ stdout' = Append(stdout, Cell(mem, point))
            /\ pc' = pc + 1
            /\ UNCHANGED << inst, mem, point, stdin, result, phase >>

\* vm.rs:94: `Ok(0) => {}`
ReadZeroClears(m, p) == Store(m, p, 0)
ReadZero(m, p) == m

\* vm.rs:91-101
Exec_Input ==
    /\ Dispatch("Input")
    /\ IF stdin = << >>
       THEN Advance(ReadZero(mem, point), point, pc + 1)
       ELSE IF Head(stdin) = IoErr
       THEN Abort("IO")
       ELSE IF ~InBounds(point)
       THEN /\ stdin' = Tail(stdin)
            /\ result' = "panic"
            /\ phase' = "done"
            /\ UNCHANGED << inst, mem, pc, point, stdout >>
       ELSE /\ stdin' = Tail(stdin)
            /\ mem' = Store(mem, point, Head(stdin))
            /\ pc' = pc + 1
            /\ UNCHANGED << inst, point, stdout, result, phase >>

\* vm.rs:103-107 and 117: the pc of the next dispatch
LoopStartStays(cell, x, p, n) == IF cell = 0 /\ x <= n THEN x ELSE p + 1
LoopStartNext(cell, x, p, n) == (IF cell = 0 /\ x <= n THEN x ELSE p) + 1
\* vm.rs:110-114 and 117
LoopEndToStart(cell, x, p, n) == IF cell # 0 /\ x <= n THEN x ELSE p + 1
LoopEndNext(cell, x, p, n) == (IF cell # 0 /\ x <= n THEN x ELSE p) + 1

\* vm.rs:102-108
Exec_LoopStart ==
    /\ Dispatch("LoopStart")
    /\ IF ~InBounds(point)
       THEN Abort("panic")
       ELSE Advance(mem, point,
                    LoopStartNext(Cell(mem, point), inst[pc + 1].x, pc, Len(inst)))

\* vm.rs:109-115
Exec_LoopEnd ==
    /\ Dispatch("LoopEnd")
    /\ IF ~InBounds(point)
       THEN Abort("panic")
       ELSE Advance(mem, point,
                    LoopEndNext(Cell(mem, point), inst[pc + 1].x, pc, Len(inst)))

\* vm.rs:63, 119: the loop condition fails and run returns Ok(())
RunExit ==
    /\ phase = "run"
    /\ pc >= Len(inst)
    /\ result' = "Ok"
    /\ phase' = "done"
    /\ UNCHANGED << envVars, process, runs, tokVars, optVars, inst, mem, pc, point, stdin, stdout,
                    steps, run_id, main_done >>

\* vm.rs:58: run takes `&mut self` and can be called again on the same VM
\* once it has returned; a later call reads on in the same standard input
RunAgain ==
    /\ phase = "done"
    /\ result \in {"Ok", "PointerOverFlow", "IO"}
    /\ runs < MaxRuns
    /\ phase' = "built"
    /\ result' = "none"
    /\ UNCHANGED << envVars, process, runs, tokVars, optVars, inst, mem, pc, point,
                    stdin, stdout, steps, run_id, main_done >>

-----------------------------------------------------------------------------
(* main  (main.rs:9-18) *)

Running == [exited |-> FALSE, code |-> 0, reported |-> FALSE]

\* main.rs:17: expect() on the Err of new_from_file panics with the message
\* "build vm failed" and the error; a panic inside optimize or run unwinds
\* through main as well.  A panicking main thread prints its message and the
\* process exits with status PanicExit.
Panics == tok_res.kind \notin {"none", "Ok"} \/ result \in {"InstructionIsNull", "panic"}

\* main.rs:17-18: the value run() returns is dropped by the `;` and main
\* returns (), which ends the process with status 0
MainExit ==
    /\ run_id = "main"
    /\ phase \in {"done", "failed"}
    /\ ~process.exited
    /\ process' = IF Panics
                  THEN [exited |-> TRUE, code |-> PanicExit, reported |-> TRUE]
                  ELSE [exited |-> TRUE, code |-> 0, reported |-> FALSE]
    /\ UNCHANGED << envVars, runs, tokVars, optVars, vmVars, phase, run_id, main_done >>

\* The same source and the same standard input are then run without optimize:
\* VM::new(tokenizer(src)).run()
StartRef ==
    /\ phase = "done"
    /\ run_id = "main"
    /\ process.exited
    /\ main_done' = [res |-> result, out |-> stdout]
    /\ run_id' = "ref"
    /\ phase' = "new"
    /\ stdin' = input
    /\ stdout' = << >>
    /\ result' = "none"
    /\ runs' = 0
    /\ UNCHANGED << envVars, process, tokVars, optVars, inst, mem, pc, point, steps >>

-----------------------------------------------------------------------------
(* Specifications *)

InputItems == {255, IoErr}
Inputs == SeqsUpTo(InputItems, MaxInputLen)

InitLocals ==
    /\ cursor = 0 /\ ir = << >> /\ stk = << >> /\ line = 1 /\ col = 0 /\ t_pc = 0
    /\ tok_res = NoResult
    /\ tokens = << >> /\ observer = 0 /\ writer = 0 /\ o_stk = << >>
    /\ inst = << >> /\ mem = EmptyMem /\ pc = 0 /\ point = 0
    /\ stdin = input /\ stdout = << >> /\ result = "none" /\ steps = 0
    /\ phase = "tokenizer" /\ run_id = "main" /\ main_done = NoRun
    /\ runs = 0 /\ process = Running

\* The whole program on instruction-only sources; the standard input and the
\* state of standard output vary only for sources that read or write.
Init ==
    /\ src \in SeqsUpTo(RunChars, MaxRunSrcLen)
    /\ input \in (IF "," \in Range(src) THEN Inputs ELSE {<< >>})
    /\ stdout_ok \in (IF "." \in Range(src) THEN BOOLEAN ELSE {TRUE})
    /\ overflow_checks \in BOOLEAN
    /\ InitLocals

Build ==
    \/ TokChar
    \/ TokEnd
    \/ Opt_flod_ir
    \/ Opt_normal_ir
    \/ Opt_loop_start_ir
    \/ Opt_loop_end_ir
    \/ OptEnd
    \/ New

Next ==
    \/ TokChar
    \/ TokEnd
    \/ Opt_flod_ir
    \/ Opt_normal_ir
    \/ Opt_loop_start_ir
    \/ Opt_loop_end_ir
    \/ OptEnd
    \/ New
    \/ RunEnter
    \/ Exec_IncrementData
    \/ Exec_DecrementData
    \/ Exec_IncrementPointer
    \/ Exec_DecrementPointer
    \/ Exec_Output
    \/ Exec_Input
    \/ Exec_LoopStart
    \/ Exec_LoopEnd
    \/ RunExit
    \/ MainExit
    \/ StartRef

Spec == Init /\ [][Next]_vars

\* A caller of the library: VM::new on a program of counted and I/O
\* instructions, then run, possibly more than once.  The state is the one
\* VM::new leaves (vm.rs:39-46).
DirectTokens ==
    {Tok("IncrementData", 1), Tok("DecrementData", 1),
     Tok("IncrementPointer", 1), Tok("IncrementPointer", FarStep),
     Tok("DecrementPointer", 1), Tok("DecrementPointer", FarStep),
     Tok("Input", 0), Tok("Output", 0)}

HasOp(v, op) == \E k \in 1..Len(v) : v[k].op = op

InitVM ==
    /\ src = << >>
    /\ inst \in SeqsUpTo(DirectTokens, MaxProgLen) \ {<< >>}
    /\ input \in (IF HasOp(inst, "Input") THEN Inputs ELSE {<< >>})
    /\ stdout_ok \in (IF HasOp(inst, "Output") THEN BOOLEAN ELSE {TRUE})
    /\ overflow_checks \in BOOLEAN
    /\ cursor = 0 /\ ir = << >> /\ stk = << >> /\ line = 1 /\ col = 0 /\ t_pc = 0
    /\ tok_res = NoResult
    /\ tokens = << >> /\ observer = 0 /\ writer = 0 /\ o_stk = << >>
    /\ mem = EmptyMem /\ pc = 0 /\ point = 0
    /\ stdin = input /\ stdout = << >> /\ result = "none" /\ steps = 0
    /\ phase = "built" /\ run_id = "direct" /\ main_done = NoRun
    /\ runs = 0 /\ process = Running

NextVM ==
    \/ RunEnter
    \/ Exec_IncrementData
    \/ Exec_DecrementData
    \/ Exec_IncrementPointer
    \/ Exec_DecrementPointer
    \/ Exec_Output
    \/ Exec_Input
    \/ RunExit
    \/ RunAgain

SpecVM == InitVM /\ [][NextVM]_vars

\* tokenizer.rs:160-209: the sources of test_compile; every comment
\* character of the second one (`arst` and the blanks) is written "a"
TestLoopIo == << "+", "[", ",", ".", "]" >>
TestComments ==
    << "[", "a", "a", "a", "a", "]", "+", "[", ",", ".", "a", "a", "\n",
       "a", "a", "a", "a", "a", "a", "a", "a", "+", "]" >>
TestFold == << "[", "+", "+", "+", "+", "+", "+", "]" >>
TestSources == {TestLoopIo, TestComments, TestFold}

\* VM::new_from_file up to the constructed VM, on sources with comments and
\* newlines; nothing is run, so the environment is fixed.
InitBuild ==
    /\ src \in SeqsUpTo(Chars, MaxSrcLen) \cup TestSources
    /\ input = << >>
    /\ stdout_ok = TRUE
    /\ overflow_checks = FALSE
    /\ InitLocals

SpecBuild == InitBuild /\ [][Build]_vars

\* tokenizer.rs:89: optimize is public and takes any Vec<Token>; a caller can
\* hand it counts the tokenizer never emits.  ir keeps the sequence as it was
\* handed over.
FoldTokens ==
    {Tok("IncrementData", 1), Tok("IncrementData", 255), Tok("DecrementData", 255),
     Tok("IncrementPointer", 1), Tok("Input", 0)}

InitOptimize ==
    /\ src = << >>
    /\ input = << >>
    /\ stdout_ok = TRUE
    /\ overflow_checks = FALSE
    /\ cursor = 0 /\ stk = << >> /\ line = 1 /\ col = 0 /\ t_pc = 0
    /\ tok_res = NoResult
    /\ ir \in SeqsUpTo(FoldTokens, MaxVecLen)
    /\ tokens = ir /\ observer = 0 /\ writer = 0 /\ o_stk = << >>
    /\ inst = << >> /\ mem = EmptyMem /\ pc = 0 /\ point = 0
    /\ stdin = input /\ stdout = << >> /\ result = "none" /\ steps = 0
    /\ phase = "optimize" /\ run_id = "main" /\ main_done = NoRun
    /\ runs = 0 /\ process = Running

\* the build of SpecBuild, and optimize on sequences handed to it directly
InitFold == InitBuild \/ InitOptimize

SpecFold == InitFold /\ [][Build]_vars

-----------------------------------------------------------------------------
(* Notions the properties are stated in, computed from the source text alone *)

Count(s, c) == Cardinality({k \in 1..Len(s) : s[k] = c})

\* position of the first `]` that closes nothing, 0 if there is none
RECURSIVE BadCloseFrom(_, _, _)
BadCloseFrom(s, k, depth) ==
    IF k > Len(s) THEN 0
    ELSE IF s[k] = "]" /\ depth = 0 THEN k
    ELSE BadCloseFrom(s, k + 1,
                      depth + (IF s[k] = "[" THEN 1 ELSE IF s[k] = "]" THEN -1 ELSE 0))
FirstBadClose(s) == BadCloseFrom(s, 1, 0)

Balanced(s) == FirstBadClose(s) = 0 /\ Count(s, "[") = Count(s, "]")

\* positions in s of the `[` still open after its first k characters, oldest first
RECURSIVE OpenAfter(_, _)
OpenAfter(s, k) ==
    IF k = 0 THEN << >>
    ELSE LET before == OpenAfter(s, k - 1)
         IN  CASE s[k] = "[" -> Append(before, k)
               [] s[k] = "]" /\ before # << >> -> SubSeq(before, 1, Len(before) - 1)
               [] OTHER -> before
UnmatchedOpens(s) == OpenAfter(s, Len(s))

\* line of the character at position k: 1 plus the newlines before it
LineOf(s, k) == 1 + Cardinality({i \in 1..(k - 1) : s[i] = "\n"})

\* the mutual-target invariant of a token sequence (targets are 0-based)
Matched(v) ==
    \A i \in 1..Len(v) :
        /\ v[i].op = "LoopStart" =>
              /\ v[i].x > i - 1
              /\ v[i].x < Len(v)
              /\ v[v[i].x + 1] = Tok("LoopEnd", i - 1)
        /\ v[i].op = "LoopEnd" =>
              /\ v[i].x < i - 1
              /\ v[v[i].x + 1] = Tok("LoopStart", i - 1)

-----------------------------------------------------------------------------
(* Properties *)

\* C2: when tokenizer returns Ok, every LoopStart at index i targets a later
\* index j holding LoopEnd(i), every LoopEnd at j targets an earlier index i
\* holding LoopStart(j), and so no LoopStart keeps the placeholder target 0.
C2_TokenizerMatched == tok_res.kind = "Ok" => Matched(ir)

\* a successful scan with a loop that has a body and a second loop
C2_Witness ==
    /\ tok_res.kind = "Ok"
    /\ \E i, k \in 1..Len(ir) :
          /\ i # k
          /\ ir[i].op = "LoopStart" /\ ir[k].op = "LoopStart"
          /\ ir[i].x > i

\* C3: when optimize has finished on a tokenizer result, the mutual-target
\* invariant holds of the compacted sequence, in compacted indices.
C3_OptimizeMatched ==
    (tok_res.kind = "Ok" /\ phase \in {"new", "built", "run", "done"}) => Matched(tokens)

\* optimize has folded instructions in front of a loop, so the loop's
\* targets are no longer the tokenizer's
C3_Witness ==
    /\ phase = "new"
    /\ Len(tokens) < Len(ir)
    /\ \E i \in 1..Len(tokens) :
          /\ tokens[i].op = "LoopStart"
          /\ \A k \in 1..Len(ir) : ir[k].op = "LoopStart" => ir[k].x # tokens[i].x

\* C7: tokenizer returns Ok exactly on balanced sources; a `]` read with an
\* empty stack ends the scan at that character with UncloseLeftBracket; the
\* end of the source with an open `[` gives UncloseRightBracket; on Ok the
\* stack is empty.
C7_BracketErrors ==
    tok_res.kind # "none" =>
        /\ tok_res.kind = "Ok" <=> Balanced(src)
        /\ FirstBadClose(src) > 0 =>
              /\ tok_res.kind = "UncloseLeftBracket"
              /\ cursor = FirstBadClose(src)
              /\ tok_res.line = LineOf(src, FirstBadClose(src))
        /\ (FirstBadClose(src) = 0 /\ ~Balanced(src)) =>
              /\ tok_res.kind = "UncloseRightBracket"
              /\ cursor = Len(src)
        /\ tok_res.kind = "Ok" => stk = << >>

\* a scan stopped by a `]` with characters still unread
C7_Witness ==
    /\ tok_res.kind = "UncloseLeftBracket"
    /\ cursor < Len(src)
    /\ cursor > 1

\* C8 as written: with more than one `[` unmatched at the end of the source,
\* the error carries the line and column recorded for the oldest of them
\* (the column recorded is the scan's col, which stays 0).
C8_ReportsOldest ==
    (tok_res.kind = "UncloseRightBracket" /\ Len(UnmatchedOpens(src)) > 1) =>
        /\ tok_res.line = LineOf(src, UnmatchedOpens(src)[1])
        /\ tok_res.col = 0

\* C8 amended: with more than one `[` unmatched at the end of the source,
\* the error carries the line and column recorded for the one pushed last
\* (the newest, innermost unmatched `[`).
C8_ReportsNewest ==
    (tok_res.kind = "UncloseRightBracket" /\ Len(UnmatchedOpens(src)) > 1) =>
        /\ tok_res.line = LineOf(src, UnmatchedOpens(src)[Len(UnmatchedOpens(src))])
        /\ tok_res.col = 0

\* two unmatched `[` on different lines
C8_Witness ==
    /\ tok_res.kind = "UncloseRightBracket"
    /\ Len(UnmatchedOpens(src)) > 1
    /\ LineOf(src, UnmatchedOpens(src)[1]) #
          LineOf(src, UnmatchedOpens(src)[Len(UnmatchedOpens(src))])

-----------------------------------------------------------------------------
(* Properties of the run *)

\* the dispatch loop is about to execute an instruction of variant op
Executing(op) ==
    /\ phase = "run"
    /\ pc < Len(inst)
    /\ inst[pc + 1].op = op

\* the run is still going after the step
Continues == phase' = "run" /\ result' = result

HasInstruction(s) == \E k \in 1..Len(s) : s[k] \in InstrChars

\* C1: for every accepted source and every standard input, the optimized
\* program and the tokenizer's own output end with the same result and have
\* written the same bytes.
C1_SameOutcome ==
    (phase = "done" /\ run_id = "ref") =>
        /\ result = main_done.res
        /\ stdout = main_done.out

\* C4: SubPointer(c) with c > pointer fails with PointerOverFlow and leaves
\* the pointer, the memory and the program counter as they were.
C4_UnderflowFails ==
    [][ (Executing("DecrementPointer") /\ point >= 0 /\ inst[pc + 1].x > point) =>
            /\ result' = "PointerOverFlow"
            /\ phase' = "done"
            /\ point' = point /\ pc' = pc /\ mem' = mem ]_vars

\* C5: AddData(c) leaves (v + c) mod 256 in the current cell and SubData(c)
\* leaves (v - c) mod 256, and the run goes on.
C5_DataWraps ==
    [][ /\ (Executing("IncrementData") /\ InBounds(point)) =>
              /\ Cell(mem', point) = (Cell(mem, point) + inst[pc + 1].x) % 256
              /\ Continues
        /\ (Executing("DecrementData") /\ InBounds(point)) =>
              /\ Cell(mem', point) = (Cell(mem, point) - inst[pc + 1].x + 256) % 256
              /\ Continues ]_vars

\* the pointer as the unsigned number it is, compared with the memory length
BeyondMemory(p, x) == p < 0 \/ p + x >= MEMORY_SIZE

\* C6: AddPointer(c) fails with PointerOverFlow exactly when pointer + c is
\* at or beyond the memory length, leaving pointer and memory unchanged;
\* otherwise the pointer becomes pointer + c and the run goes on with the
\* next instruction.
C6_AddPointer ==
    [][ Executing("IncrementPointer") =>
            IF BeyondMemory(point, inst[pc + 1].x)
            THEN /\ result' = "PointerOverFlow"
                 /\ phase' = "done"
                 /\ point' = point /\ mem' = mem
            ELSE /\ point' = point + inst[pc + 1].x
                 /\ pc' = pc + 1
                 /\ Continues ]_vars

\* C9: Input at the end of standard input changes no cell and not the data
\* pointer, is no error, and the run goes on with the next instruction.
C9_InputAtEof ==
    [][ (Executing("Input") /\ stdin = << >>) =>
            /\ mem' = mem
            /\ point' = point
            /\ pc' = pc + 1
            /\ Continues ]_vars

\* an Input has just been executed on an empty standard input while the
\* current cell was not zero
C9_Witness ==
    /\ phase = "run"
    /\ input = << >>
    /\ pc > 0
    /\ inst[pc].op = "Input"
    /\ Cell(mem, point) # 0

\* C10: a source without instruction characters fails construction with
\* InstructionIsNull before anything is executed; a non-empty instruction
\* sequence is always constructed.
C10_EmptyProgram ==
    phase \in {"built", "run", "done"} =>
        /\ ~HasInstruction(src) =>
              /\ result = "InstructionIsNull"
              /\ phase = "done"
              /\ steps = 0
        /\ Len(IF run_id = "main" THEN tokens ELSE ir) > 0 =>
              /\ result # "InstructionIsNull"
              /\ inst = (IF run_id = "main" THEN tokens ELSE ir)

\* construction has failed on a source made of comment characters only
C10_Witness ==
    /\ src # << >>
    /\ ~HasInstruction(src)
    /\ result = "InstructionIsNull"

-----------------------------------------------------------------------------
(* Folding, stated on the tokenizer's result alone *)

IsLoop(op) == op \in {"LoopStart", "LoopEnd"}

\* an instruction without its jump target
Shape(t) == IF IsLoop(t.op) THEN Tok(t.op, 0) ELSE t
Shapes(v) == [k \in 1..Len(v) |-> Shape(v[k])]

\* the count of a run: the sum of its counts, modulo 256 for cell counts
RunSum(op, a, b) == IF IsData(op) THEN (a + b) % 256 ELSE a + b

\* every maximal run of one counted variant replaced by a single instruction
RECURSIVE FoldRuns(_)
FoldRuns(v) ==
    IF Len(v) = 0 THEN << >>
    ELSE LET h == v[1]
             rest == FoldRuns(Tail(v))
         IN  IF IsCounted(h.op) /\ Len(rest) > 0 /\ rest[1].op = h.op
             THEN << Tok(h.op, RunSum(h.op, h.x, rest[1].x)) >> \o Tail(rest)
             ELSE << h >> \o rest

NoAdjacentRuns(v) ==
    \A k \in 1..(Len(v) - 1) : IsCounted(v[k].op) => v[k + 1].op # v[k].op

Optimized == phase \in {"new", "built", "run", "done"}

\* C11: optimize replaces every maximal run of one counted variant by one
\* instruction of that variant whose count is the sum of the run's counts
\* (modulo 256 for the cell variants), copies Input, Output, LoopStart and
\* LoopEnd one for one, and merges nothing across another instruction, so no
\* two neighbours of the result have the same counted variant; `[++++++]`
\* becomes LoopStart(2), IncrementData(6), LoopEnd(0).
C11_FoldsRuns ==
    (Optimized /\ run_id = "main") =>
        /\ Shapes(tokens) = FoldRuns(Shapes(ir))
        /\ NoAdjacentRuns(tokens)
        /\ src = TestFold =>
              tokens = << Tok("LoopStart", 2), Tok("IncrementData", 6),
                          Tok("LoopEnd", 0) >>
        /\ ir = << Tok("IncrementData", 255), Tok("IncrementData", 1) >> =>
              tokens = << Tok("IncrementData", 0) >>

C11_Witness ==
    /\ phase = "new"
    /\ src = TestFold
    /\ tokens = << Tok("LoopStart", 2), Tok("IncrementData", 6), Tok("LoopEnd", 0) >>

-----------------------------------------------------------------------------
(* The instruction text of a source *)

\* the source with every character that is not an instruction removed
RECURSIVE Strip(_)
Strip(s) ==
    IF Len(s) = 0 THEN << >>
    ELSE IF s[1] \in InstrChars THEN << s[1] >> \o Strip(Tail(s))
    ELSE Strip(Tail(s))

\* position of the `]` closing the `[` at position k of a balanced text
RECURSIVE CloseFrom(_, _, _)
CloseFrom(s, k, depth) ==
    IF s[k] = "]" /\ depth = 0 THEN k
    ELSE CloseFrom(s, k + 1,
                   depth + (IF s[k] = "[" THEN 1 ELSE IF s[k] = "]" THEN -1 ELSE 0))
CloseOf(s, k) == CloseFrom(s, k + 1, 0)

\* position of the `[` closed by the `]` at position k of a balanced text
RECURSIVE OpenFrom(_, _, _)
OpenFrom(s, k, depth) ==
    IF s[k] = "[" /\ depth = 0 THEN k
    ELSE OpenFrom(s, k - 1,
                  depth + (IF s[k] = "]" THEN 1 ELSE IF s[k] = "[" THEN -1 ELSE 0))
OpenOf(s, k) == OpenFrom(s, k - 1, 0)

\* the instruction at (1-based) position k of an instruction-only balanced
\* text t; the jump targets are the (0-based) positions of the partners in t
InstructionAt(t, k) ==
    CASE t[k] = "[" -> Tok("LoopStart", CloseOf(t, k) - 1)
      [] t[k] = "]" -> Tok("LoopEnd", OpenOf(t, k) - 1)
      [] t[k] = "+" -> Tok("IncrementData", 1)
      [] t[k] = "-" -> Tok("DecrementData", 1)
      [] t[k] = ">" -> Tok("IncrementPointer", 1)
      [] t[k] = "<" -> Tok("DecrementPointer", 1)
      [] t[k] = "," -> Tok("Input", 0)
      [] t[k] = "." -> Tok("Output", 0)
InstructionsOf(t) == [k \in 1..Len(t) |-> InstructionAt(t, k)]

\* C12: characters that are no instruction change nothing: the sequence
\* tokenizer returns for a source is the one of the source with those
\* characters removed, one instruction per instruction character, the jump
\* targets being instruction indices and not character offsets; the second
\* source of test_compile gives LoopStart(1), LoopEnd(0), IncrementData(1),
\* LoopStart(7), Input, Output, IncrementData(1), LoopEnd(3).
C12_CommentsIgnored ==
    /\ tok_res.kind = "Ok" => ir = InstructionsOf(Strip(src))
    /\ (tok_res.kind = "Ok" /\ src = TestComments) =>
          ir = << Tok("LoopStart", 1), Tok("LoopEnd", 0), Tok("IncrementData", 1),
                  Tok("LoopStart", 7), Tok("Input", 0), Tok("Output", 0),
                  Tok("IncrementData", 1), Tok("LoopEnd", 3) >>

C12_Witness ==
    /\ tok_res.kind = "Ok"
    /\ src = TestComments
    /\ Len(ir) = 8
    /\ ir[4] = Tok("LoopStart", 7)

-----------------------------------------------------------------------------
(* The process *)

BuildFailed == tok_res.kind \notin {"none", "Ok"} \/ result = "InstructionIsNull"
RunFailed == result \in {"PointerOverFlow", "IO"}

\* C13: no error is swallowed at the process boundary: when the build fails
\* or run returns an error (PointerOverFlow or IO) the process reports it and
\* exits with a non-zero status; it exits with status 0 only after a run that
\* returned Ok.
C13_ErrorsSurface ==
    (run_id = "main" /\ process.exited) =>
        /\ (BuildFailed \/ RunFailed) => (process.reported /\ process.code # 0)
        /\ process.code = 0 => result = "Ok"

\* C14: SubPointer(c) with c <= pointer never fails with PointerOverFlow:
\* the pointer becomes pointer - c and the run goes on with the next
\* instruction.
C14_NoFalseUnderflow ==
    [][ (Executing("DecrementPointer") /\ InBounds(point) /\ inst[pc + 1].x <= point) =>
            /\ point' = point - inst[pc + 1].x
            /\ pc' = pc + 1
            /\ mem' = mem
            /\ Continues ]_vars

\* C15: LoopStart(target) at index i, the current cell being zero, makes
\* target + 1 the next instruction dispatched, and the run ends with Ok when
\* target is the last index; the current cell being non-zero, the next
\* instruction is i + 1.  Memory and data pointer are unchanged either way.
C15_LoopStart ==
    [][ /\ (Executing("LoopStart") /\ InBounds(point)) =>
              /\ pc' = IF Cell(mem, point) = 0 THEN inst[pc + 1].x + 1 ELSE pc + 1
              /\ mem' = mem
              /\ point' = point
              /\ Continues
        /\ (phase = "run" /\ pc >= Len(inst)) =>
              /\ result' = "Ok"
              /\ phase' = "done" ]_vars

\* a LoopStart met with a zero cell has just jumped over a non-empty body to
\* the end of the program
C15_Witness ==
    /\ phase = "run"
    /\ steps = 1
    /\ inst[1].op = "LoopStart"
    /\ Len(inst) >= 3
    /\ pc = inst[1].x + 1
    /\ pc = Len(inst)

\* C16 as written: LoopEnd(target) with a non-zero current cell sets the
\* program counter to target, without a further advance, so the matching
\* LoopStart is dispatched next; with a zero cell the next instruction follows.
C16_BackToLoopStart ==
    [][ (Executing("LoopEnd") /\ InBounds(point)) =>
            /\ pc' = IF Cell(mem, point) # 0 THEN inst[pc + 1].x ELSE pc + 1
            /\ mem' = mem
            /\ point' = point
            /\ Continues ]_vars

\* C16 amended: LoopEnd(target) with a non-zero current cell sets the program
\* counter to target and then advances it by 1 as after every instruction,
\* so the instruction dispatched next is the one at target + 1, the first of
\* the loop body; with a zero cell the next instruction follows.
C16_BackToLoopBody ==
    [][ (Executing("LoopEnd") /\ InBounds(point)) =>
            /\ pc' = IF Cell(mem, point) # 0 THEN inst[pc + 1].x + 1 ELSE pc + 1
            /\ mem' = mem
            /\ point' = point
            /\ Continues ]_vars

\* the LoopEnd of `+[.]` has just jumped back: the Output at index 2 is next
C16_Witness ==
    /\ phase = "run"
    /\ run_id = "main"
    /\ src = << "+", "[", ".", "]" >>
    /\ steps = 4
    /\ pc = 2
    /\ inst[pc + 1].op = "Output"
    /\ Cell(mem, point) = 1

\* C18: every call of run starts from a fresh state, the data pointer 0, the
\* program counter 0 and every cell 0; a second run on the same VM does not
\* see the cells the first one left.
C18_FreshRun ==
    (phase = "run" /\ steps = 0) =>
        /\ pc = 0
        /\ point = 0
        /\ mem = EmptyMem

-----------------------------------------------------------------------------
(* Positions and the cursors of optimize *)

\* number of characters of its line in front of the character at position k
ColOf(s, k) == Cardinality({i \in 1..(k - 1) : \A j \in i..(k - 1) : s[j] # "\n"})

\* position in s of the bracket a failed scan is about
Offending(s, kind) ==
    IF kind = "UncloseLeftBracket" THEN FirstBadClose(s)
    ELSE UnmatchedOpens(s)[Len(UnmatchedOpens(s))]

\* C17: the position a tokenizer error carries is that of the scan at the
\* offending bracket: the line is 1 plus the number of newlines read before
\* it, the column counts the characters read on the current line and starts
\* again at each newline, so that brackets at different places of one line
\* get different columns.
C17_ErrorPosition ==
    tok_res.kind \notin {"none", "Ok"} =>
        /\ tok_res.line = LineOf(src, Offending(src, tok_res.kind))
        /\ tok_res.col = ColOf(src, Offending(src, tok_res.kind))

\* C19: optimize cannot fail on a tokenizer result: at every LoopEnd it reads
\* the stack of pending starts is not empty, every index it reads or writes
\* (the write cursor, the pending starts) lies inside the sequence, and the
\* stack is empty when the read cursor reaches the end.
C19_OptimizeSafe ==
    /\ result # "panic"
    /\ phase = "optimize" =>
          /\ \A k \in 1..Len(o_stk) : o_stk[k] >= 0 /\ o_stk[k] < writer
          /\ observer < Len(tokens) =>
                /\ writer < Len(tokens)
                /\ tokens[observer + 1].op = "LoopEnd" => Len(o_stk) > 0
          /\ observer >= Len(tokens) => Len(o_stk) = 0

\* optimize is about to read the LoopEnd of an inner loop
C19_Witness ==
    /\ phase = "optimize"
    /\ observer < Len(tokens)
    /\ tokens[observer + 1].op = "LoopEnd"
    /\ Len(o_stk) = 2

\* C20: in optimize the write cursor never passes the read cursor, so no
\* instruction is overwritten before it has been read, and the result is
\* not longer than the input.
C20_WriterBehind ==
    /\ phase = "optimize" =>
          /\ writer <= observer
          /\ observer <= Len(tokens)
          /\ Len(tokens) = Len(ir)
          /\ \A k \in (observer + 1)..Len(tokens) : tokens[k] = ir[k]
    /\ Optimized => Len(tokens) <= Len(ir)

\* a run has been folded and instructions are still to be read: the write
\* cursor is strictly behind the read cursor
C20_Witness ==
    /\ phase = "optimize"
    /\ writer > 0
    /\ writer < observer
    /\ observer < Len(tokens)

====
